---- MODULE Spec2Model ----
(***************************************************************************)
(* Model of typid's ID<T> (src/src/lib.rs): a 128-bit Uuid payload with a  *)
(* phantom tag.  The tag is a compile-time marker with no runtime data, so *)
(* an identifier is modelled by its 16 payload bytes alone.                 *)
(*                                                                         *)
(* A String is a sequence of one-character strings.  The Uuid operations   *)
(* that ID<T> delegates to (Uuid::from_bytes, Uuid::new_v4, Display,       *)
(* Uuid::parse_str, the derived Hash / Ord / Eq on the byte array) are     *)
(* modelled at the call sites in lib.rs by what the uuid crate does.       *)
(***************************************************************************)
EXTENDS Integers, Sequences, FiniteSets

VARIABLES
    ids,    \* the identifiers bound so far: slot -> ID<T>, NoID while unbound
    src,    \* how each slot was built: from_bytes(data), new() over the draw data, clone
    s,      \* the String returned by a.to_string()
    r,      \* the from_str call: its argument and its Result
    def,    \* the serialization: the identifier and its IDDef string
    dr,     \* the deserialization: the string field and its Result
    eqr,    \* results of ==
    ordr,   \* results of Ord::cmp
    pordr,  \* results of PartialOrd::partial_cmp
    hashr,  \* what Hash::hash fed to the hasher
    ur      \* the bytes of a.uuid()

vars == <<ids, src, s, r, def, dr, eqr, ordr, pordr, hashr, ur>>

----------------------------------------------------------------------------
(* Bounds of the explored inputs *)

\* number of byte positions of the base payload that the inputs vary
NumVarPos == 3

\* number of malformed-input families offered to from_str / try_from
NumBadInputs == 8

----------------------------------------------------------------------------
(* Bytes and characters *)

LowerHex == <<"0","1","2","3","4","5","6","7","8","9","a","b","c","d","e","f">>

UpperHex == <<"0","1","2","3","4","5","6","7","8","9","A","B","C","D","E","F">>

\* bitwise pieces of a byte, by arithmetic
HiNibble(b) == b \div 16

LoNibble(b) == b % 16

\* the payload of the documentation example 550e8400-e29b-41d4-a716-446655440000
ExampleBytes == <<85, 14, 132, 0, 226, 155, 65, 212, 167, 22, 68, 102, 85, 68, 0, 0>>

\* the i-th varied position: the version byte, the variant byte, the last
\* byte, the first byte, then the remaining ones
PosOf(i) == CASE i = 1 -> 7
              [] i = 2 -> 9
              [] i = 3 -> 16
              [] i = 4 -> 1
              [] OTHER -> ((i * 3) % 16) + 1

VarPos == {PosOf(i) : i \in 1..NumVarPos}

ByteVals == {11, 171, 255}

Patch(b, p, v) == [b EXCEPT ![p] = v]

\* the 16-byte arrays offered to from_bytes and drawn by the random source
Payloads == {ExampleBytes} \cup {Patch(ExampleBytes, p, v) : p \in VarPos, v \in ByteVals}

----------------------------------------------------------------------------
(* Values *)

\* ID<T> { id: Uuid, _phantom }
MkID(bytes) == [id |-> bytes]

NoID == [id |-> <<>>]

\* the absence of a String (no String of characters equals it)
NoString == <<"none">>

\* Result<ID<T>, String>
Ok(v) == [tag |-> "Ok", val |-> v, err |-> NoString]

Err(e) == [tag |-> "Err", val |-> NoID, err |-> e]

----------------------------------------------------------------------------
(* Construction *)

\* Uuid::new_v4 over 16 random bytes: version nibble 4, variant bits 10
new_v4(rand) ==
    [rand EXCEPT ![7] = (rand[7] % 16) + 64,
                 ![9] = (rand[9] % 64) + 128]

\* Default::default
default(rand) == MkID(new_v4(rand))

\* a generator that ignores the random source
new_const(rand) == MkID(new_v4(ExampleBytes))

\* ID::new
new(rand) == default(rand)

\* a constructor that forces the version and variant bits
from_bytes_v4(bytes) == MkID(new_v4(bytes))

\* ID::from_bytes
from_bytes(bytes) == MkID(bytes)

\* ID::uuid, read through Uuid::as_bytes
uuid(self) == self.id

\* Clone::clone
clone(self) == MkID(self.id)

----------------------------------------------------------------------------
(* Text conversion *)

\* the 32 hex digits of a payload, high nibble first
HexDigits(bytes, digits) ==
    [i \in 1..32 |-> LET b == bytes[(i + 1) \div 2]
                     IN digits[(IF i % 2 = 1 THEN HiNibble(b) ELSE LoNibble(b)) + 1]]

\* Display for Uuid: lower-case hyphenated 8-4-4-4-12
FmtHyphenated(bytes, digits) ==
    LET h == HexDigits(bytes, digits)
    IN SubSeq(h, 1, 8) \o <<"-">> \o SubSeq(h, 9, 12) \o <<"-">> \o
       SubSeq(h, 13, 16) \o <<"-">> \o SubSeq(h, 17, 20) \o <<"-">> \o
       SubSeq(h, 21, 32)

\* a rendering in upper case, format!("{:X}", ..)
to_string_upper(self) == FmtHyphenated(self.id, UpperHex)

\* ToString::to_string: format!("{}", self.id)
to_string(self) == FmtHyphenated(self.id, LowerHex)

IsHexChar(c) == \E k \in 1..16 : c = LowerHex[k] \/ c = UpperHex[k]

HexVal(c) == (CHOOSE k \in 1..16 : c = LowerHex[k] \/ c = UpperHex[k]) - 1

UrnPrefix == <<"u","r","n",":","u","u","i","d",":">>

HyphenAt == {9, 14, 19, 24}

\* the hex digits of a well-formed 36-character body, hyphens dropped
StripHyphens(body) == SelectSeq(body, LAMBDA c : c # "-")

\* 32 hex digits to 16 bytes
DecodeHex(h) == [k \in 1..16 |-> 16 * HexVal(h[2 * k - 1]) + HexVal(h[2 * k])]

\* Uuid::parse_str: the hyphenated form, the simple form, or the hyphenated
\* form behind "urn:uuid:"; hex digits of either case.  Tag "Ok" with the
\* bytes, or tag "Err".  (Releases of the uuid crate differ on the braced
\* form {..}; no braced text is among the inputs.)
parse_str(str) ==
    LET body == IF Len(str) = 45 /\ SubSeq(str, 1, 9) = UrnPrefix
                THEN SubSeq(str, 10, 45) ELSE str
        hyphenated == /\ Len(body) = 36
                      /\ \A i \in 1..36 : IF i \in HyphenAt THEN body[i] = "-"
                                          ELSE IsHexChar(body[i])
        simple == /\ Len(body) = 32
                  /\ \A i \in 1..32 : IsHexChar(body[i])
    IN IF hyphenated THEN [tag |-> "Ok", bytes |-> DecodeHex(StripHyphens(body))]
       ELSE IF simple THEN [tag |-> "Ok", bytes |-> DecodeHex(body)]
       ELSE [tag |-> "Err", bytes |-> <<>>]

\* a parser that forces the version and variant bits of what it read
from_str_fix_version(str) ==
    LET p == parse_str(str)
    IN IF p.tag = "Ok" THEN Ok(MkID(new_v4(p.bytes))) ELSE Err(str)

\* a parser that reports a message in place of the rejected input
from_str_err_message(str) ==
    LET p == parse_str(str)
    IN IF p.tag = "Ok" THEN Ok(MkID(p.bytes)) ELSE Err(<<"i","n","v","a","l","i","d">>)

\* FromStr::from_str
from_str(str) ==
    LET p == parse_str(str)
    IN IF p.tag = "Ok" THEN Ok(MkID(p.bytes)) ELSE Err(str)

----------------------------------------------------------------------------
(* Structured conversion through IDDef(String) *)

\* a conversion that falls back on a default identifier, unwrap_or_default
try_from_or_default(iddef) ==
    LET res == from_str(iddef)
    IN IF res.tag = "Ok" THEN res ELSE Ok(default(ExampleBytes))

\* TryFrom<IDDef>::try_from
try_from(iddef) == from_str(iddef)

\* a conversion that writes the field in upper case
into_upper(self) == FmtHyphenated(self.id, UpperHex)

\* Into<IDDef>::into
into(self) == to_string(self)

\* serde(into = "IDDef"): the field is Into::into of a clone of the value
serialize(self) == into(clone(self))

\* serde(try_from = "IDDef"): the field is read as a String and converted by
\* TryFrom; its error becomes the deserializer's custom error, shown as is
deserialize(field) == try_from(field)

----------------------------------------------------------------------------
(* Equality, ordering, hashing *)

\* an equality that reads only the last eight bytes
eq_low_half(self, other) == SubSeq(self.id, 9, 16) = SubSeq(other.id, 9, 16)

\* an equality that reads only the first eight bytes
eq_high_half(self, other) == SubSeq(self.id, 1, 8) = SubSeq(other.id, 1, 8)

\* PartialEq::eq
eq(self, other) == self.id = other.id

\* Ord for the 16-byte array behind Uuid: the first differing byte decides
RECURSIVE CmpBytes(_, _, _)
CmpBytes(p, q, i) ==
    IF i > 16 THEN "Equal"
    ELSE IF p[i] < q[i] THEN "Less"
    ELSE IF p[i] > q[i] THEN "Greater"
    ELSE CmpBytes(p, q, i + 1)

\* a comparison that starts at the last byte, as of a little-endian integer
RECURSIVE CmpBytesRev(_, _, _)
CmpBytesRev(p, q, i) ==
    IF i < 1 THEN "Equal"
    ELSE IF p[i] < q[i] THEN "Less"
    ELSE IF p[i] > q[i] THEN "Greater"
    ELSE CmpBytesRev(p, q, i - 1)

cmp_little_endian(self, other) == CmpBytesRev(self.id, other.id, 16)

\* Ord::cmp
cmp(self, other) == CmpBytes(self.id, other.id, 1)

\* Option<Ordering>
Some(o) == <<o>>

\* PartialOrd::partial_cmp
partial_cmp(self, other) == Some(cmp(self, other))

\* Hash::hash: the derived Hash of the byte array writes its length, then
\* its bytes, to the hasher; state is what the hasher has been fed so far
hash(self, state) == state \o <<Len(self.id)>> \o self.id

----------------------------------------------------------------------------
(* Input strings *)

\* "550e8400-e29b-41d4-a716-446655440000"
ExampleText ==
    <<"5","5","0","e","8","4","0","0","-","e","2","9","b","-","4","1","d","4","-",
      "a","7","1","6","-","4","4","6","6","5","5","4","4","0","0","0","0">>

\* "not-a-uuid"
NotAUuid == <<"n","o","t","-","a","-","u","u","i","d">>

\* "URN:UUID:"
UpperUrnPrefix == <<"U","R","N",":","U","U","I","D",":">>

\* the payloads whose spellings are offered as input text
InputPayloads == {ExampleBytes, Patch(ExampleBytes, PosOf(1), 171)}

\* the spellings of a payload that Uuid::parse_str accepts
Spellings(bytes) ==
    { FmtHyphenated(bytes, LowerHex),
      FmtHyphenated(bytes, UpperHex),
      HexDigits(bytes, LowerHex),
      HexDigits(bytes, UpperHex),
      UrnPrefix \o FmtHyphenated(bytes, LowerHex) }

ValidInputs == UNION {Spellings(b) : b \in InputPayloads}

\* the i-th malformed input
BadInput(i) ==
    CASE i = 1 -> NotAUuid
      [] i = 2 -> <<>>
      [] i = 3 -> SubSeq(ExampleText, 1, 35)
      [] i = 4 -> ExampleText \o <<"0">>
      [] i = 5 -> [ExampleText EXCEPT ![1] = "g"]
      [] i = 6 -> [ExampleText EXCEPT ![8] = "-", ![9] = "0"]
      [] i = 7 -> UpperUrnPrefix \o ExampleText
      [] i = 8 -> [k \in 1..36 |-> IF k \in HyphenAt THEN "0" ELSE ExampleText[k]]
      [] i = 9 -> UrnPrefix \o HexDigits(ExampleBytes, LowerHex)
      [] OTHER -> [k \in 1..i |-> "0"]

MalformedInputs == {BadInput(i) : i \in 1..NumBadInputs}

InputStrings == ValidInputs \cup MalformedInputs

----------------------------------------------------------------------------
(* State *)

Slots == {"a", "b", "c"}

NoSource == [kind |-> "none", data |-> <<>>]

\* a call that has not happened
NoParse == [arg |-> NoString, tag |-> "None", val |-> NoID, err |-> NoString]

NoDef == [arg |-> NoID, out |-> NoString]

NoResults == [set |-> FALSE]

\* a from_str / deserialize call: the argument beside the Result
Call(arg, res) == [arg |-> arg, tag |-> res.tag, val |-> res.val, err |-> res.err]

Init ==
    /\ ids = [k \in Slots |-> NoID]
    /\ src = [k \in Slots |-> NoSource]
    /\ s = NoString
    /\ r = NoParse
    /\ def = NoDef
    /\ dr = NoParse
    /\ eqr = NoResults
    /\ ordr = NoResults
    /\ pordr = NoResults
    /\ hashr = NoResults
    /\ ur = <<>>

Bound(k) == ids[k] # NoID

----------------------------------------------------------------------------
(* Operations *)

\* let k = ID::from_bytes(bytes)
FromBytes(k, bytes) ==
    /\ ~Bound(k)
    /\ ids' = [ids EXCEPT ![k] = from_bytes(bytes)]
    /\ src' = [src EXCEPT ![k] = [kind |-> "bytes", data |-> bytes]]
    /\ UNCHANGED <<s, r, def, dr, eqr, ordr, pordr, hashr, ur>>

\* let k = ID::new(), the random source yielding rand
New(k, rand) ==
    /\ ~Bound(k)
    /\ ids' = [ids EXCEPT ![k] = new(rand)]
    /\ src' = [src EXCEPT ![k] = [kind |-> "random", data |-> rand]]
    /\ UNCHANGED <<s, r, def, dr, eqr, ordr, pordr, hashr, ur>>

\* let b = a.clone()
Clone ==
    /\ Bound("a") /\ ~Bound("b")
    /\ ids' = [ids EXCEPT !["b"] = clone(ids["a"])]
    /\ src' = [src EXCEPT !["b"] = [kind |-> "clone", data |-> <<>>]]
    /\ UNCHANGED <<s, r, def, dr, eqr, ordr, pordr, hashr, ur>>

\* a.uuid()
Uuid ==
    /\ Bound("a")
    /\ ur' = uuid(ids["a"])
    /\ UNCHANGED <<ids, src, s, r, def, dr, eqr, ordr, pordr, hashr>>

\* a.to_string()
ToString ==
    /\ Bound("a")
    /\ s' = to_string(ids["a"])
    /\ UNCHANGED <<ids, src, r, def, dr, eqr, ordr, pordr, hashr, ur>>

\* let r = ID::from_str(str), str an input or the string a.to_string() returned
FromStr(str) ==
    /\ r = NoParse
    /\ str # NoString
    /\ r' = Call(str, from_str(str))
    /\ UNCHANGED <<ids, src, s, def, dr, eqr, ordr, pordr, hashr, ur>>

\* serialize v: a, or the identifier the deserialization returned
Serialize(v) ==
    /\ def = NoDef
    /\ v # NoID
    /\ def' = [arg |-> v, out |-> serialize(v)]
    /\ UNCHANGED <<ids, src, s, r, dr, eqr, ordr, pordr, hashr, ur>>

\* deserialize a string field: the text given to from_str, or the serialized field
Deserialize(field) ==
    /\ dr = NoParse
    /\ field # NoString
    /\ dr' = Call(field, deserialize(field))
    /\ UNCHANGED <<ids, src, s, r, def, eqr, ordr, pordr, hashr, ur>>

\* a == b, b == a, a == a
Eq ==
    /\ Bound("a") /\ Bound("b")
    /\ eqr' = [set |-> TRUE, ab |-> eq(ids["a"], ids["b"]),
               ba |-> eq(ids["b"], ids["a"]), aa |-> eq(ids["a"], ids["a"])]
    /\ UNCHANGED <<ids, src, s, r, def, dr, ordr, pordr, hashr, ur>>

\* a.hash(&mut h1); b.hash(&mut h2), both hashers fresh
Hash ==
    /\ Bound("a") /\ Bound("b")
    /\ hashr' = [set |-> TRUE, a |-> hash(ids["a"], <<>>), b |-> hash(ids["b"], <<>>)]
    /\ UNCHANGED <<ids, src, s, r, def, dr, eqr, ordr, pordr, ur>>

\* the comparisons of a, b, c by Ord::cmp
Cmp ==
    /\ Bound("a") /\ Bound("b") /\ Bound("c")
    /\ ordr' = [set |-> TRUE, ab |-> cmp(ids["a"], ids["b"]),
                ba |-> cmp(ids["b"], ids["a"]), bc |-> cmp(ids["b"], ids["c"]),
                ac |-> cmp(ids["a"], ids["c"])]
    /\ UNCHANGED <<ids, src, s, r, def, dr, eqr, pordr, hashr, ur>>

\* the comparisons of a, b, c by PartialOrd::partial_cmp
PartialCmp ==
    /\ Bound("a") /\ Bound("b") /\ Bound("c")
    /\ pordr' = [set |-> TRUE, ab |-> partial_cmp(ids["a"], ids["b"]),
                 ba |-> partial_cmp(ids["b"], ids["a"]),
                 bc |-> partial_cmp(ids["b"], ids["c"]),
                 ac |-> partial_cmp(ids["a"], ids["c"])]
    /\ UNCHANGED <<ids, src, s, r, def, dr, eqr, ordr, hashr, ur>>

----------------------------------------------------------------------------
(* Specifications *)

\* text and structured conversion of one identifier
Next ==
    \/ \E bytes \in Payloads : FromBytes("a", bytes)
    \/ \E rand \in Payloads : New("a", rand)
    \/ ToString
    \/ \E str \in InputStrings \cup {s} : FromStr(str)
    \/ \E v \in {ids["a"], dr.val} : Serialize(v)
    \/ \E field \in {r.arg, def.out} : Deserialize(field)

Spec == Init /\ [][Next]_vars

\* value semantics of two identifiers
NextValue ==
    \/ \E k \in {"a", "b"}, bytes \in Payloads : FromBytes(k, bytes)
    \/ \E k \in {"a", "b"}, rand \in Payloads : New(k, rand)
    \/ Clone
    \/ Uuid
    \/ Eq
    \/ Hash

SpecValue == Init /\ [][NextValue]_vars

\* ordering of three identifiers
NextOrder ==
    \/ \E k \in Slots, bytes \in Payloads : FromBytes(k, bytes)
    \/ \E k \in Slots, rand \in Payloads : New(k, rand)
    \/ Eq
    \/ Cmp
    \/ PartialCmp

SpecOrder == Init /\ [][NextOrder]_vars

----------------------------------------------------------------------------
(* Properties *)

\* the canonical text form: 36 characters, hyphens after 8, 12, 16 and 20
\* digits, every other character a lower-case hex digit
IsCanonicalText(str) ==
    /\ Len(str) = 36
    /\ \A i \in 1..36 : IF i \in HyphenAt THEN str[i] = "-"
                        ELSE \E k \in 1..16 : str[i] = LowerHex[k]

\* where the first digit of byte k stands in the canonical text
TextPos(k) ==
    2 * k - 1 + (IF k > 10 THEN 4 ELSE IF k > 8 THEN 3 ELSE IF k > 6 THEN 2
                 ELSE IF k > 4 THEN 1 ELSE 0)

\* the 122 bits of a random draw that Uuid::new_v4 keeps
KeptBits(rand) == [rand EXCEPT ![7] = rand[7] % 16, ![9] = rand[9] % 64]

\* the first index at which two payloads differ, 17 if none
FirstDiff(p, q) ==
    IF \A i \in 1..16 : p[i] = q[i] THEN 17
    ELSE CHOOSE i \in 1..16 : p[i] # q[i] /\ \A j \in 1..(i - 1) : p[j] = q[j]

\* the lexicographic order of two payloads
Lex(p, q) ==
    LET i == FirstDiff(p, q)
    IN IF i = 17 THEN "Equal" ELSE IF p[i] < q[i] THEN "Less" ELSE "Greater"

\* C1: text round-trip. Parsing the string that a.to_string() returned
\* succeeds and returns an identifier equal to a, with the same 16 bytes,
\* whether a was built by from_bytes or by new().
C1_TextRoundTrip ==
    (s # NoString /\ r.arg = s) =>
        /\ r.tag = "Ok"
        /\ eq(r.val, ids["a"])
        /\ r.val.id = ids["a"].id

\* C1 witness: a payload whose version nibble is not 4 went through
\* from_bytes, to_string and from_str.
C1_Witness ==
    /\ src["a"].kind = "bytes" /\ ids["a"].id[7] = 255
    /\ s # NoString /\ r.arg = s /\ r.tag = "Ok"

\* C2 as stated: deserializing the serialized field of an identifier gives
\* an equal identifier, and serializing the identifier that a string field
\* deserialized to gives back that same string, for every accepted string.
C2_Original ==
    /\ (def # NoDef /\ dr.arg = def.out) => (dr.tag = "Ok" /\ eq(dr.val, def.arg))
    /\ (dr.tag = "Ok" /\ def # NoDef /\ def.arg = dr.val) => def.out = dr.arg

\* C2 amended: deserializing the serialized field of an identifier gives an
\* equal identifier; serializing the identifier that a string field
\* deserialized to gives back that string when the field was in canonical
\* form, and otherwise (upper case, no hyphens, urn prefix) gives a
\* canonical string that differs from the field.
C2_StructuredRoundTrip ==
    /\ (def # NoDef /\ dr.arg = def.out) => (dr.tag = "Ok" /\ eq(dr.val, def.arg))
    /\ (dr.tag = "Ok" /\ def # NoDef /\ def.arg = dr.val) =>
           /\ IsCanonicalText(def.out)
           /\ IsCanonicalText(dr.arg) <=> (def.out = dr.arg)

\* C2 witness: a canonical input field was deserialized and the result
\* serialized back to the same string.
C2_Witness ==
    /\ dr.tag = "Ok" /\ dr.arg \in ValidInputs /\ IsCanonicalText(dr.arg)
    /\ def # NoDef /\ def.arg = dr.val /\ def.out = dr.arg

\* C3: parse failure reporting. from_str of a malformed input returns an
\* error that is exactly the input and no identifier; from_str of a valid
\* input returns an identifier and no error; never both and never neither.
C3_ParseFailureReporting ==
    r # NoParse =>
        /\ r.arg \in MalformedInputs => (r.tag = "Err" /\ r.err = r.arg /\ r.val = NoID)
        /\ r.arg \in ValidInputs \cup {s} => (r.tag = "Ok" /\ r.val # NoID /\ r.err = NoString)
        /\ (r.tag = "Ok" /\ r.val # NoID /\ r.err = NoString)
             \/ (r.tag = "Err" /\ r.val = NoID /\ r.err # NoString)

\* C3 witness: from_str("not-a-uuid") returned Err("not-a-uuid").
C3_Witness == r.arg = NotAUuid /\ r.tag = "Err" /\ r.err = NotAUuid /\ r.val = NoID

\* C4: deserialization applies the from_str rule. On the same content it
\* gives the Result from_str gives; on malformed content it gives an error
\* and no identifier.
C4_DeserializeAsFromStr ==
    dr # NoParse =>
        /\ (r # NoParse /\ dr.arg = r.arg) =>
               (dr.tag = r.tag /\ dr.val = r.val /\ dr.err = r.err)
        /\ dr.arg \in MalformedInputs => (dr.tag = "Err" /\ dr.val = NoID)
        /\ dr.arg \in ValidInputs => (dr.tag = "Ok" /\ dr.val # NoID)

\* C4 witness: the field "not-a-uuid" was deserialized, to an error.
C4_Witness == dr.arg = NotAUuid /\ r.arg = NotAUuid /\ dr.tag = "Err" /\ dr.val = NoID

C6_EqualityIsPayloadEquality ==
    eqr.set =>
        /\ eqr.ab <=> \A i \in 1..16 : ids["a"].id[i] = ids["b"].id[i]
        /\ eqr.ba = eqr.ab
        /\ eqr.aa
        /\ (src["a"].kind = "bytes" /\ src["b"].kind = "bytes") =>
               (eqr.ab <=> src["a"].data = src["b"].data)
        /\ src["b"].kind = "clone" => eqr.ab

\* C6 witness: two from_bytes identifiers whose arrays differ in the last
\* byte only were compared, unequal.
C6_Witness ==
    /\ src["a"].kind = "bytes" /\ src["b"].kind = "bytes"
    /\ FirstDiff(src["a"].data, src["b"].data) = 16
    /\ eqr.set /\ ~eqr.ab

\* C7: ordering is the total lexicographic order of the 16 bytes. cmp is
\* the lexicographic comparison; exactly one of a<b, a==b, a>b holds; < is
\* transitive; cmp is Equal iff ==; partial_cmp is Some(cmp).
C7_OrderingTotalLexicographic ==
    (ordr.set /\ pordr.set /\ eqr.set) =>
        /\ ordr.ab = Lex(ids["a"].id, ids["b"].id)
        /\ ordr.bc = Lex(ids["b"].id, ids["c"].id)
        /\ ordr.ac = Lex(ids["a"].id, ids["c"].id)
        /\ \/ (pordr.ab = Some("Less") /\ ~eqr.ab /\ pordr.ba # Some("Less"))
           \/ (pordr.ab # Some("Less") /\ eqr.ab /\ pordr.ba # Some("Less"))
           \/ (pordr.ab # Some("Less") /\ ~eqr.ab /\ pordr.ba = Some("Less"))
        /\ (pordr.ab = Some("Less") /\ pordr.bc = Some("Less")) => pordr.ac = Some("Less")
        /\ (ordr.ab = "Less" /\ ordr.bc = "Less") => ordr.ac = "Less"
        /\ (ordr.ab = "Equal") <=> eqr.ab
        /\ pordr.ab = Some(ordr.ab) /\ pordr.ba = Some(ordr.ba)
        /\ pordr.bc = Some(ordr.bc) /\ pordr.ac = Some(ordr.ac)

\* C7 witness: a < b < c were compared, a and b agreeing on their first
\* bytes.
C7_Witness ==
    /\ ordr.set /\ pordr.set /\ eqr.set
    /\ ordr.ab = "Less" /\ ordr.bc = "Less" /\ ordr.ac = "Less"
    /\ FirstDiff(ids["a"].id, ids["b"].id) > 1

\* C8: equality/hash consistency. Equal identifiers feed the same data to
\* the hasher, and that data is made of the payload alone.
C8_EqualImpliesSameHash ==
    (eqr.set /\ hashr.set) =>
        /\ eqr.ab => hashr.a = hashr.b
        /\ SubSeq(hashr.a, 2, Len(hashr.a)) = ids["a"].id
        /\ SubSeq(hashr.b, 2, Len(hashr.b)) = ids["b"].id

\* C8 witness: an identifier from new() and one from from_bytes compared
\* equal and were hashed.
C8_Witness ==
    /\ src["a"].kind = "random" /\ src["b"].kind = "bytes"
    /\ eqr.set /\ eqr.ab /\ hashr.set

\* C9: from_bytes stores the given bytes verbatim. uuid() of
\* from_bytes(b) has exactly the bytes b, whatever its version and variant
\* bits.
C9_FromBytesVerbatim ==
    /\ \A k \in Slots : src[k].kind = "bytes" => (Bound(k) /\ ids[k].id = src[k].data)
    /\ (src["a"].kind = "bytes" /\ ur # <<>>) => ur = src["a"].data

\* C9 witness: uuid() was read from a from_bytes identifier whose version
\* nibble is f.
C9_Witness ==
    /\ src["a"].kind = "bytes" /\ src["a"].data[7] = 255
    /\ ur = src["a"].data

\* C10: to_string yields the canonical form. 36 characters, hyphens at
\* (0-based) positions 8, 13, 18, 23, the other characters the lower-case
\* hex digits of the 16 bytes in order; the documentation example renders
\* as 550e8400-e29b-41d4-a716-446655440000.
C10_ToStringCanonical ==
    s # NoString =>
        /\ Len(s) = 36
        /\ \A i \in {9, 14, 19, 24} : s[i] = "-"
        /\ \A k \in 1..16 :
               /\ s[TextPos(k)] = LowerHex[(ids["a"].id[k] \div 16) + 1]
               /\ s[TextPos(k) + 1] = LowerHex[(ids["a"].id[k] % 16) + 1]
        /\ ids["a"].id = ExampleBytes => s = ExampleText

\* C10 witness: the documentation example was rendered.
C10_Witness == ids["a"].id = ExampleBytes /\ s = ExampleText

====
